---- MODULE Spec2Model ----
(***************************************************************************)
(* WebSerial binding for node-serialport: the session object               *)
(* WebSerialPortBinding (lock, open/close/update, read/write/drain/flush,  *)
(* set/get) running on the JavaScript event loop.                          *)
(*                                                                         *)
(* Every call of a session method is a task.  A task runs synchronously    *)
(* from one await to the next; a step of the model is one such run.        *)
(* Continuations of settled promises are microtasks, kept in the FIFO mq;  *)
(* completions of transport I/O are macrotasks and happen only when mq is  *)
(* empty.  The caller issues calls from a macrotask, from the continuation *)
(* of a finished call (the token 0 in mq), or right after another call of  *)
(* the same synchronous block.                                             *)
(*                                                                         *)
(* The registry WebSerialBinding (open, list, getPortPath) and getPortInfo *)
(* are modelled on top of a platform with NumDevices devices, each with    *)
(* the descriptor port.getInfo() reports; a virtual path is the sequence   *)
(* of the tokens of the URL string.                                        *)
(***************************************************************************)
EXTENDS Integers, Sequences, FiniteSets, TLC

\* ---------------------------------------------------------------- bounds
NumTasks == 4          \* task slots: the most calls any specification makes
MaxCalls == 3          \* calls the caller makes in a behaviour of Spec
NumBauds == 2          \* distinct baud rates a caller may ask for
MaxLen == 2            \* largest length asked of read()
MaxChunk == 3          \* largest chunk the transport reader delivers
MaxBytes == 4          \* bytes the transport delivers in one behaviour

Tasks == 1..NumTasks
BaudRates == 1..NumBauds
InitialBaud == 1       \* openOptions.baudRate given to the constructor

LockOps == {"open", "close", "update"}

VARIABLES
    \* fields of WebSerialPortBinding
    isOpen, lastWriteCall, updatingPortSettings, lastSignalsValues,
    internalBuffer, locked, reader, writer, baudRate,
    \* the transport (SerialPort, its streams and its signals)
    portState, gen, liveReader, readReqs, delivered, wOpen, writeQ,
    portSignals, sigQ,
    \* the tasks and the event loop
    task, mq, lockWaiters, drainWaiters, userActive, budget,
    \* history: port.open() invocations, bytes handed to read() callers
    portOpenCalls, returned,
    \* the platform of the registry: 'serial' in navigator, port.getInfo() of
    \* every device, navigator.serial.getPorts()
    serial, info, paired,
    \* the registry call in progress (or the last one), the calls made
    rcall, rcalls,
    \* history of the registry: requestPort() invocations, the devices
    \* sessions were constructed on, the devices binding.open() was called
    \* for, the last list() that finished
    requestCalls, bindings, opened, lastList

sessVars == <<isOpen, lastWriteCall, updatingPortSettings, lastSignalsValues,
              internalBuffer, locked, reader, writer, baudRate>>
portVars == <<portState, gen, liveReader, readReqs, delivered, wOpen, writeQ,
              portSignals, sigQ>>
loopVars == <<task, mq, lockWaiters, drainWaiters, userActive, budget>>
histVars == <<portOpenCalls, returned>>
regVars == <<serial, info, paired, rcall, rcalls, requestCalls, bindings, opened,
             lastList>>
vars == <<sessVars, portVars, loopVars, histVars, regVars>>

\* a call of a session method: op and arg are the method and its argument,
\* pc the await it is suspended at, awaiting the lock promise or the write it
\* waits for, rdr, result and err the locals reader, result and e of read() (err
\* only in the step that catches e; in open(), close() and update() err is
\* the exception a step raised: "type", "open", "signals"), sig the signals handed to
\* setSignals, wst the state of the transport write it issued, ret, rbytes
\* and bytesRead what the call gave back to the caller (rbytes: the bytes
\* read() set in the caller's buffer); began, stale and failed are history:
\* the number of calls the caller had made when close() or update() began its
\* teardown, internalBuffer as it was when flush() or update() was called, and the steps
\* of _close() whose promise rejected under close() ("cancel", "wclose",
\* "pclose"; under update() only "pclose", the one rejection that shows in
\* the transport); onOpen tells that update() was called with isOpen true and
\* no reconfiguration going on, rate is the baudRate the call handed to
\* port.open(), atClose that read() was suspended on the transport reader
\* when a close() started its teardown
IdleTask == [op |-> "none", pc |-> "idle", arg |-> 0, delay |-> 0, awaiting |-> 0,
             rdr |-> 0, io |-> "none", result |-> "none", chunk |-> <<>>, sig |-> 0,
             wst |-> "none", ret |-> "none", rbytes |-> <<>>, began |-> 0,
             stale |-> <<>>, err |-> "none", failed |-> {}, onOpen |-> FALSE,
             rate |-> 0, atClose |-> FALSE, bytesRead |-> 0]

\* a registry call: op the method, pc the await it is suspended at, path and
\* port the options path and webSerialPort of open() (port also the argument
\* of getPortPath()), seen what getPorts() gave it, ret how it settled and
\* value what it returned (a path, a list of port infos, the device of the
\* session)
NoCall == [op |-> "none", pc |-> "idle", path |-> <<>>, port |-> 0, seen |-> <<>>,
           ret |-> "none", value |-> <<>>]

NoList == [seen |-> <<>>, ports |-> <<>>, counters |-> <<>>]

\* a platform on which the registry has not been used
NoRegistry ==
    /\ serial = TRUE
    /\ info = <<>>
    /\ paired = <<>>
    /\ rcall = NoCall
    /\ rcalls = 0
    /\ requestCalls = 0
    /\ bindings = <<>>
    /\ opened = <<>>
    /\ lastList = NoList

\* constructor: isOpen = false, internalBuffer empty, nothing else set
Init ==
    /\ NoRegistry
    /\ isOpen = FALSE
    /\ lastWriteCall = 0
    /\ updatingPortSettings = FALSE
    /\ lastSignalsValues = 0
    /\ internalBuffer = <<>>
    /\ locked = 0
    /\ reader = 0
    /\ writer = 0
    /\ baudRate = InitialBaud
    /\ portState = "closed"
    /\ gen = 0
    /\ liveReader = 0
    /\ readReqs = <<>>
    /\ delivered = 0
    /\ wOpen = FALSE
    /\ writeQ = <<>>
    /\ portSignals = 0
    /\ sigQ = <<>>
    /\ task = [t \in Tasks |-> IdleTask]
    /\ mq = <<>>
    /\ lockWaiters = <<>>
    /\ drainWaiters = <<>>
    /\ userActive = FALSE
    /\ budget = MaxCalls
    /\ portOpenCalls = 0
    /\ returned = <<>>

\* ------------------------------------------------------------ event loop
\* the caller's continuation, queued when the call of task p settles (only
\* modelled while the caller still has a call to make)
Token(p) == IF (IF task[p].pc = "idle" THEN budget - 1 ELSE budget) > 0
            THEN <<0>> ELSE <<>>

\* tasks are numbered in call order: the next call takes the lowest idle task
CanCall(p) ==
    /\ budget > 0
    /\ task[p].pc = "idle"
    /\ \A t \in Tasks : t < p => task[t].pc # "idle"
    /\ userActive \/ mq = <<>>

\* a call was made: the caller may go on calling in the same synchronous block
Called == userActive' = TRUE /\ budget' = budget - 1 /\ UNCHANGED regVars
\* a microtask or a macrotask of the binding ran
Stepped == userActive' = FALSE /\ UNCHANGED budget /\ UNCHANGED regVars

IsHead(p) == mq # <<>> /\ Head(mq) = p
\* task p resumes as a microtask at the await labelled l
Runs(p, l) == IsHead(p) /\ task[p].pc = l /\ task[p].delay = 0
\* the transport settles the promise task p awaits at l (a macrotask)
IoDone(p, l) == mq = <<>> /\ task[p].pc = l
Rest(p) == IF IsHead(p) THEN Tail(mq) ELSE mq

InSeq(x, s) == \E i \in 1..Len(s) : s[i] = x

\* a promise rejection travelling up n awaits before its effect
Tick(p) ==
    /\ IsHead(p) /\ task[p].delay > 0
    /\ task' = [task EXCEPT ![p].delay = @ - 1]
    /\ mq' = Append(Tail(mq), p)
    /\ Stepped
    /\ UNCHANGED <<sessVars, portVars, histVars, lockWaiters, drainWaiters>>

\* the caller's continuation runs: it may issue calls
UserResume ==
    /\ IsHead(0)
    /\ mq' = Tail(mq)
    /\ userActive' = TRUE
    /\ UNCHANGED <<sessVars, portVars, histVars, task, lockWaiters, drainWaiters, budget>>
    /\ UNCHANGED regVars

\* ------------------------------------------------------------------ lock
\* unlock(): const lock = this.locked; if (lock) { this.locked = undefined;
\* lock.resolve(true) }: the waiters of the promise in the slot, in await order
UnlockWoken == IF locked = 0 THEN <<>>
               ELSE SelectSeq(lockWaiters, LAMBDA t : task[t].awaiting = locked)
UnlockRest == IF locked = 0 THEN lockWaiters
              ELSE SelectSeq(lockWaiters, LAMBDA t : task[t].awaiting # locked)

\* the task record of p once it has entered method o with argument a
Entered(p, o, a) ==
    [task[p] EXCEPT !.op = o, !.arg = a,
                    !.stale = IF o \in {"flush", "update"} THEN internalBuffer
                              ELSE <<>>,
                    !.onOpen = (o = "update" /\ isOpen /\ ~updatingPortSettings)]

\* lock() called: this.locked && await this.waitForUnlock(); this.locked = ...
\* (with the slot free the install is synchronous)
LockStart(p, o, a) ==
    IF locked # 0
    THEN /\ task' = [task EXCEPT ![p] = [Entered(p, o, a) EXCEPT !.pc = "wfu",
                                                                !.awaiting = locked]]
         /\ lockWaiters' = Append(lockWaiters, p)
         /\ UNCHANGED <<locked, mq>>
    ELSE /\ locked' = p
         /\ task' = [task EXCEPT ![p] = [Entered(p, o, a) EXCEPT !.pc = "locked"]]
         /\ mq' = Append(mq, p)
         /\ UNCHANGED lockWaiters

\* waitForUnlock() resumed: while (this.locked) await this.locked.promise
WaitForUnlock(p) ==
    /\ Runs(p, "wfu")
    /\ IF locked # 0
       THEN /\ task' = [task EXCEPT ![p].awaiting = locked]
            /\ lockWaiters' = Append(lockWaiters, p)
            /\ mq' = Tail(mq)
       ELSE /\ task' = [task EXCEPT ![p] = [@ EXCEPT !.awaiting = 0,
                           !.pc = IF task[p].op \in LockOps THEN "install" ELSE "body"]]
            /\ mq' = Append(Tail(mq), p)
            /\ UNCHANGED lockWaiters
    /\ Stepped
    /\ UNCHANGED <<sessVars, portVars, histVars, drainWaiters>>

\* lock() after its waitForUnlock() returned: this.locked = usePromiseWithResolvers()
LockInstall(p) ==
    /\ Runs(p, "install")
    /\ locked' = p
    /\ task' = [task EXCEPT ![p].pc = "locked"]
    /\ mq' = Append(Tail(mq), p)
    /\ Stepped
    /\ UNCHANGED <<isOpen, lastWriteCall, updatingPortSettings, lastSignalsValues,
                   internalBuffer, reader, writer, baudRate>>
    /\ UNCHANGED <<portVars, histVars, lockWaiters, drainWaiters>>

\* ------------------------------------------------- open / close / update
Settled(p, r) == [task[p] EXCEPT !.pc = "done", !.ret = r]
\* where an exception raised inside _close()/_open() lands: update() has a
\* catch block, open() and close() have none
Raise(p) == IF task[p].op = "update" THEN "catch" ELSE "throw"

\* open(): if (!this.isOpen) { await this.lock(); ... }
OpenCall(p) ==
    /\ CanCall(p)
    /\ IF isOpen
       THEN /\ task' = [task EXCEPT ![p] = [Entered(p, "open", 0) EXCEPT
                                               !.pc = "done", !.ret = "ok"]]
            /\ mq' = mq \o Token(p)
            /\ UNCHANGED <<locked, lockWaiters>>
       ELSE LockStart(p, "open", 0)
    /\ Called
    /\ UNCHANGED <<isOpen, lastWriteCall, updatingPortSettings, lastSignalsValues,
                   internalBuffer, reader, writer, baudRate>>
    /\ UNCHANGED <<portVars, histVars, drainWaiters>>

\* close(): if (this.isOpen) { await this.lock(); ... }
CloseCall(p) ==
    /\ CanCall(p)
    /\ IF ~isOpen
       THEN /\ task' = [task EXCEPT ![p] = [Entered(p, "close", 0) EXCEPT
                                               !.pc = "done", !.ret = "ok"]]
            /\ mq' = mq \o Token(p)
            /\ UNCHANGED <<locked, lockWaiters>>
       ELSE LockStart(p, "close", 0)
    /\ Called
    /\ UNCHANGED <<isOpen, lastWriteCall, updatingPortSettings, lastSignalsValues,
                   internalBuffer, reader, writer, baudRate>>
    /\ UNCHANGED <<portVars, histVars, drainWaiters>>

UpdateCallAlways(p, b) ==
    /\ CanCall(p)
    /\ LockStart(p, "update", b)
    /\ Called
    /\ UNCHANGED <<isOpen, lastWriteCall, updatingPortSettings, lastSignalsValues,
                   internalBuffer, reader, writer, baudRate>>
    /\ UNCHANGED <<portVars, histVars, drainWaiters>>
\* update(options): if (options.baudRate != this.openOptions.baudRate) { await this.lock(); ... }
UpdateCall(p, b) ==
    /\ CanCall(p)
    /\ IF b = baudRate
       THEN /\ task' = [task EXCEPT ![p] = [Entered(p, "update", b) EXCEPT
                                               !.pc = "done", !.ret = "ok"]]
            /\ mq' = mq \o Token(p)
            /\ UNCHANGED <<locked, lockWaiters>>
       ELSE LockStart(p, "update", b)
    /\ Called
    /\ UNCHANGED <<isOpen, lastWriteCall, updatingPortSettings, lastSignalsValues,
                   internalBuffer, reader, writer, baudRate>>
    /\ UNCHANGED <<portVars, histVars, drainWaiters>>

\* _close() runs synchronously up to its first pending await.  The record says
\* where it stops (pc; ready: the awaited promise is already settled) and
\* what it did to the transport on the way.
CloseBase == [pc |-> "none", ready |-> FALSE, delay |-> 0, lr |-> liveReader,
              wake |-> <<>>, io |-> "done", wo |-> wOpen, lwc |-> lastWriteCall,
              ps |-> portState, failed |-> {}]

ClosePortKeep(b) ==
    IF b.ps = "opened"
    THEN [b EXCEPT !.ps = "closing", !.pc = "pclose_io"]
    ELSE [b EXCEPT !.pc = "close_ret", !.ready = TRUE, !.delay = 1,
                   !.failed = @ \cup {"pclose"}]
\* this.lastWriteCall = undefined; try { await this.port.close() } catch (e) { }
\* (close() of a port that is not open rejects at once)
ClosePort(b) ==
    IF b.ps = "opened"
    THEN [b EXCEPT !.lwc = 0, !.ps = "closing", !.pc = "pclose_io"]
    ELSE [b EXCEPT !.lwc = 0, !.pc = "close_ret", !.ready = TRUE, !.delay = 1,
                   !.failed = @ \cup {"pclose"}]

\* if (this.writer) { try { await this.writer.close() } catch (e) { } ...
\* (close() of a writer whose stream is closed rejects at once)
CloseWriter(b) ==
    IF writer # 0
    THEN IF b.wo THEN [b EXCEPT !.wo = FALSE, !.pc = "wclose_io"]
         ELSE [b EXCEPT !.pc = "wclose_ret", !.ready = TRUE,
                        !.failed = @ \cup {"wclose"}]
    ELSE ClosePort(b)

\* if (this.reader) { try { await this.reader.cancel() } catch (e) { } ...
\* cancel() closes the stream: the reads pending on it resolve with done
CloseReader(b) ==
    IF reader # 0
    THEN IF b.lr = reader
         THEN [b EXCEPT !.lr = 0, !.wake = readReqs, !.io = "done", !.pc = "cancel_io"]
         ELSE [b EXCEPT !.pc = "cancel_ret", !.ready = TRUE]
    ELSE CloseWriter(b)

\* try { await ... } catch (e) { } in _close(): the rejections of the steps in
\* S are swallowed; what is kept of them as history of call p
Swallowed(p, S) == IF task[p].op = "close" THEN S ELSE S \cap {"pclose"}

\* the calls made so far (a call takes the lowest idle slot)
NumCalls == Cardinality({t \in Tasks : task[t].pc # "idle"})

ApplyClose(p, q, c) ==
    /\ task' = [t \in Tasks |->
                 IF t = p THEN [task[p] EXCEPT !.pc = c.pc, !.delay = c.delay,
                                   !.began = IF task[p].pc = "locked"
                                             THEN NumCalls ELSE @,
                                   !.failed = @ \cup Swallowed(p, c.failed)]
                 ELSE LET tk == IF task[p].op = "close" /\ task[p].pc = "locked"
                                     /\ task[t].pc = "read_io"
                                  THEN [task[t] EXCEPT !.atClose = TRUE]
                                  ELSE task[t]
                      IN  IF InSeq(t, c.wake)
                          THEN [tk EXCEPT !.pc = "read_res", !.io = c.io]
                          ELSE tk]
    /\ mq' = q \o c.wake \o (IF c.ready THEN <<p>> ELSE <<>>)
    /\ liveReader' = c.lr
    /\ readReqs' = IF c.wake # <<>> THEN <<>> ELSE readReqs
    /\ wOpen' = c.wo
    /\ lastWriteCall' = c.lwc
    /\ portState' = c.ps

\* close() holding the lock: this.isOpen = false; await this._close()
CloseLocked(p) ==
    /\ Runs(p, "locked") /\ task[p].op = "close"
    /\ isOpen' = FALSE
    /\ ApplyClose(p, Tail(mq), CloseReader(CloseBase))
    /\ Stepped
    /\ UNCHANGED <<updatingPortSettings, lastSignalsValues, internalBuffer, locked,
                   reader, writer, baudRate>>
    /\ UNCHANGED <<gen, delivered, writeQ, portSignals, sigQ>>
    /\ UNCHANGED <<histVars, lockWaiters, drainWaiters>>

UpdateLockedFlushes(p) ==
    /\ Runs(p, "locked") /\ task[p].op = "update"
    /\ baudRate' = task[p].arg
    /\ updatingPortSettings' = TRUE
    /\ internalBuffer' = <<>>
    /\ ApplyClose(p, Tail(mq), CloseReader(CloseBase))
    /\ Stepped
    /\ UNCHANGED <<isOpen, lastSignalsValues, locked, reader, writer>>
    /\ UNCHANGED <<gen, delivered, writeQ, portSignals, sigQ>>
    /\ UNCHANGED <<histVars, lockWaiters, drainWaiters>>
\* update() holding the lock: this.openOptions.baudRate = options.baudRate;
\* this.updatingPortSettings = true; await this._close()
UpdateLocked(p) ==
    /\ Runs(p, "locked") /\ task[p].op = "update"
    /\ baudRate' = task[p].arg
    /\ updatingPortSettings' = TRUE
    /\ ApplyClose(p, Tail(mq), CloseReader(CloseBase))
    /\ Stepped
    /\ UNCHANGED <<isOpen, lastSignalsValues, internalBuffer, locked, reader, writer>>
    /\ UNCHANGED <<gen, delivered, writeQ, portSignals, sigQ>>
    /\ UNCHANGED <<histVars, lockWaiters, drainWaiters>>

\* _close() after await this.reader.cancel(): this.reader.releaseLock();
\* this.reader = undefined (a TypeError when this.reader is gone meanwhile);
\* releaseLock() of a reader with pending reads rejects them
CancelDone(p) ==
    /\ IoDone(p, "cancel_io") \/ Runs(p, "cancel_ret")
    /\ \E ok \in BOOLEAN :
         LET rej == IF ok THEN {} ELSE Swallowed(p, {"cancel"})
         IN  /\ ~ok => task[p].pc = "cancel_io"
             /\ IF reader = 0
                THEN /\ task' = [task EXCEPT ![p] = [@ EXCEPT !.pc = Raise(p),
                                                !.err = "type",
                                                !.failed = @ \cup rej]]
                     /\ mq' = Append(Rest(p), p)
                     /\ UNCHANGED <<reader, liveReader, readReqs, wOpen,
                                    lastWriteCall, portState>>
                ELSE /\ reader' = 0
                     /\ ApplyClose(p, Rest(p),
                          CloseWriter(IF liveReader = reader
                                      THEN [CloseBase EXCEPT !.lr = 0,
                                               !.wake = readReqs, !.io = "other",
                                               !.failed = rej]
                                      ELSE [CloseBase EXCEPT !.failed = rej]))
    /\ Stepped
    /\ UNCHANGED <<isOpen, updatingPortSettings, lastSignalsValues, internalBuffer,
                   locked, writer, baudRate>>
    /\ UNCHANGED <<gen, delivered, writeQ, portSignals, sigQ>>
    /\ UNCHANGED <<histVars, lockWaiters, drainWaiters>>

\* _close() after await this.writer.close() (which waits for the queued
\* writes): this.writer.releaseLock(); this.writer = undefined
WriterCloseDone(p) ==
    /\ (IoDone(p, "wclose_io") /\ writeQ = <<>>) \/ Runs(p, "wclose_ret")
    /\ \E ok \in BOOLEAN :
         LET rej == IF ok THEN {} ELSE Swallowed(p, {"wclose"})
         IN  /\ ~ok => task[p].pc = "wclose_io"
             /\ IF writer = 0
                THEN /\ task' = [task EXCEPT ![p] = [@ EXCEPT !.pc = Raise(p),
                                                !.err = "type",
                                                !.failed = @ \cup rej]]
                     /\ mq' = Append(Rest(p), p)
                     /\ UNCHANGED <<writer, liveReader, readReqs, wOpen,
                                    lastWriteCall, portState>>
                ELSE /\ writer' = 0
                     /\ ApplyClose(p, Rest(p),
                                   ClosePort([CloseBase EXCEPT !.failed = rej]))
    /\ Stepped
    /\ UNCHANGED <<isOpen, updatingPortSettings, lastSignalsValues, internalBuffer,
                   locked, reader, baudRate>>
    /\ UNCHANGED <<gen, delivered, writeQ, portSignals, sigQ>>
    /\ UNCHANGED <<histVars, lockWaiters, drainWaiters>>

\* await this.port.close() settles; a rejection is swallowed.  The port
\* refuses to close while one of its streams is locked, and it is closed only
\* after the cancel of its readable has finished, which settles a pending
\* reader.cancel() first.
PortCloseDone(p) ==
    /\ IoDone(p, "pclose_io")
    /\ \E ok \in BOOLEAN :
         /\ ok => liveReader = 0 /\ \A t \in Tasks : task[t].pc # "cancel_io"
         /\ portState' = IF ok THEN "closed" ELSE "opened"
         /\ task' = [task EXCEPT ![p] = [@ EXCEPT !.pc = "close_ret",
                          !.failed = IF ok THEN @ ELSE @ \cup Swallowed(p, {"pclose"})]]
    /\ mq' = <<p>>
    /\ Stepped
    /\ UNCHANGED <<sessVars, histVars, lockWaiters, drainWaiters>>
    /\ UNCHANGED <<gen, liveReader, readReqs, delivered, wOpen, writeQ, portSignals, sigQ>>

\* close() after await this._close(): this.internalBuffer = new Uint8Array(0);
\* this.unlock()
CloseRet(p) ==
    /\ Runs(p, "close_ret") /\ task[p].op = "close"
    /\ internalBuffer' = <<>>
    /\ locked' = 0
    /\ lockWaiters' = UnlockRest
    /\ mq' = Tail(mq) \o UnlockWoken \o Token(p)
    /\ task' = [task EXCEPT ![p] = Settled(p, "ok")]
    /\ Stepped
    /\ UNCHANGED <<isOpen, lastWriteCall, updatingPortSettings, lastSignalsValues,
                   reader, writer, baudRate>>
    /\ UNCHANGED <<portVars, histVars, drainWaiters>>

\* _open(): await this.port.open({...}); open() of a port that is not closed
\* rejects at once
PortOpen(p) ==
    /\ portOpenCalls' = portOpenCalls + 1
    /\ IF portState = "closed"
       THEN /\ portState' = "opening"
            /\ task' = [task EXCEPT ![p] = [@ EXCEPT !.pc = "popen_io",
                                                    !.rate = baudRate]]
            /\ mq' = Tail(mq)
       ELSE /\ task' = [task EXCEPT ![p] = [@ EXCEPT !.pc = Raise(p), !.delay = 1,
                                                    !.err = "open"]]
            /\ mq' = Append(Tail(mq), p)
            /\ UNCHANGED portState
    /\ Stepped
    /\ UNCHANGED <<sessVars, lockWaiters, drainWaiters, returned>>
    /\ UNCHANGED <<gen, liveReader, readReqs, delivered, wOpen, writeQ, portSignals, sigQ>>

\* open() holding the lock: await this._open()
OpenLocked(p) ==
    /\ Runs(p, "locked") /\ task[p].op = "open"
    /\ PortOpen(p)

\* update() after await this._close(): await this._open()
UpdateReopen(p) ==
    /\ Runs(p, "close_ret") /\ task[p].op = "update"
    /\ PortOpen(p)

\* await this.port.open() settles; on success _open() takes the reader and the
\* writer of the fresh streams
PortOpenDone(p) ==
    /\ IoDone(p, "popen_io")
    /\ \E ok \in BOOLEAN :
         IF ok
         THEN /\ portState' = "opened"
              /\ gen' = gen + 1
              /\ reader' = gen + 1
              /\ writer' = gen + 1
              /\ liveReader' = gen + 1
              /\ wOpen' = TRUE
              /\ portSignals' = 0
              /\ task' = [task EXCEPT ![p].pc = "open_ret"]
         ELSE /\ portState' = "closed"
              /\ task' = [task EXCEPT ![p] = [@ EXCEPT !.pc = Raise(p),
                                                      !.err = "open"]]
              /\ UNCHANGED <<gen, reader, writer, liveReader, wOpen, portSignals>>
    /\ mq' = <<p>>
    /\ Stepped
    /\ UNCHANGED <<isOpen, lastWriteCall, updatingPortSettings, lastSignalsValues,
                   internalBuffer, locked, baudRate>>
    /\ UNCHANGED <<readReqs, delivered, writeQ, sigQ>>
    /\ UNCHANGED <<histVars, lockWaiters, drainWaiters>>

\* open() after await this._open(): this.isOpen = true; this.unlock()
OpenRet(p) ==
    /\ Runs(p, "open_ret") /\ task[p].op = "open"
    /\ isOpen' = TRUE
    /\ locked' = 0
    /\ lockWaiters' = UnlockRest
    /\ mq' = Tail(mq) \o UnlockWoken \o Token(p)
    /\ task' = [task EXCEPT ![p] = Settled(p, "ok")]
    /\ Stepped
    /\ UNCHANGED <<lastWriteCall, updatingPortSettings, lastSignalsValues,
                   internalBuffer, reader, writer, baudRate>>
    /\ UNCHANGED <<portVars, histVars, drainWaiters>>

\* update() after await this._open(): if (this.lastSignalsValues) await
\* this.port.setSignals(...); this.updatingPortSettings = false; this.unlock()
UpdateRestore(p) ==
    /\ Runs(p, "open_ret") /\ task[p].op = "update"
    /\ IF lastSignalsValues # 0
       THEN /\ IF portState = "opened"
               THEN /\ sigQ' = Append(sigQ, p)
                    /\ task' = [task EXCEPT ![p] = [@ EXCEPT !.pc = "sig_io",
                                                    !.sig = lastSignalsValues]]
                    /\ mq' = Tail(mq)
               ELSE /\ task' = [task EXCEPT ![p] = [@ EXCEPT !.pc = "catch",
                                                            !.err = "signals"]]
                    /\ mq' = Append(Tail(mq), p)
                    /\ UNCHANGED sigQ
            /\ UNCHANGED <<updatingPortSettings, locked, lockWaiters>>
       ELSE /\ updatingPortSettings' = FALSE
            /\ locked' = 0
            /\ lockWaiters' = UnlockRest
            /\ mq' = Tail(mq) \o UnlockWoken \o Token(p)
            /\ task' = [task EXCEPT ![p] = Settled(p, "ok")]
            /\ UNCHANGED sigQ
    /\ Stepped
    /\ UNCHANGED <<isOpen, lastWriteCall, lastSignalsValues, internalBuffer,
                   reader, writer, baudRate>>
    /\ UNCHANGED <<portState, gen, liveReader, readReqs, delivered, wOpen, writeQ,
                   portSignals>>
    /\ UNCHANGED <<histVars, drainWaiters>>

\* update() after await this.port.setSignals(): this.updatingPortSettings =
\* false; this.unlock() -- or the catch block: this.updatingPortSettings =
\* false; throw e
UpdateSignalsDone(p) ==
    /\ IoDone(p, "sig_io") /\ task[p].op = "update" /\ Head(sigQ) = p
    /\ sigQ' = Tail(sigQ)
    /\ updatingPortSettings' = FALSE
    /\ \E ok \in BOOLEAN :
         IF ok
         THEN /\ portSignals' = task[p].sig
              /\ locked' = 0
              /\ lockWaiters' = UnlockRest
              /\ mq' = UnlockWoken \o Token(p)
              /\ task' = [task EXCEPT ![p] = Settled(p, "ok")]
         ELSE /\ mq' = Token(p)
              /\ task' = [task EXCEPT ![p] = [Settled(p, "throw") EXCEPT
                                                 !.err = "signals"]]
              /\ UNCHANGED <<portSignals, locked, lockWaiters>>
    /\ Stepped
    /\ UNCHANGED <<isOpen, lastWriteCall, lastSignalsValues, internalBuffer,
                   reader, writer, baudRate>>
    /\ UNCHANGED <<portState, gen, liveReader, readReqs, delivered, wOpen, writeQ>>
    /\ UNCHANGED <<histVars, drainWaiters>>

CatchKeepsFlag(p) ==
    /\ Runs(p, "catch")
    /\ task' = [task EXCEPT ![p] = Settled(p, "throw")]
    /\ mq' = Tail(mq) \o Token(p)
    /\ Stepped
    /\ UNCHANGED <<sessVars, portVars, histVars, lockWaiters, drainWaiters>>
\* update(): catch (e) { this.updatingPortSettings = false; throw e }
Catch(p) ==
    /\ Runs(p, "catch")
    /\ updatingPortSettings' = FALSE
    /\ task' = [task EXCEPT ![p] = Settled(p, "throw")]
    /\ mq' = Tail(mq) \o Token(p)
    /\ Stepped
    /\ UNCHANGED <<isOpen, lastWriteCall, lastSignalsValues, internalBuffer, locked,
                   reader, writer, baudRate>>
    /\ UNCHANGED <<portVars, histVars, lockWaiters, drainWaiters>>

\* an exception leaves the method: the call rejects
Throw(p) ==
    /\ Runs(p, "throw")
    /\ task' = [task EXCEPT ![p] = Settled(p, "throw")]
    /\ mq' = Tail(mq) \o Token(p)
    /\ Stepped
    /\ UNCHANGED <<sessVars, portVars, histVars, lockWaiters, drainWaiters>>

\* --------------------------------------------------- write / drain / flush
\* this.locked && await this.waitForUnlock() entered with the slot taken
WaitStart(p, o, a) ==
    /\ task' = [task EXCEPT ![p] = [Entered(p, o, a) EXCEPT !.pc = "wfu",
                                                           !.awaiting = locked]]
    /\ lockWaiters' = Append(lockWaiters, p)
    /\ UNCHANGED mq

\* return (this.lastWriteCall = this.writer?.write(...)); a write to a stream
\* that is closing or closed rejects at once
WriteIssue(p, q, tk) ==
    /\ IF writer # 0
       THEN /\ lastWriteCall' = p
            /\ IF wOpen
               THEN /\ writeQ' = Append(writeQ, p)
                    /\ task' = [task EXCEPT ![p] = [tk EXCEPT !.pc = "write_io",
                                                              !.wst = "pending"]]
                    /\ mq' = q
               ELSE /\ task' = [task EXCEPT ![p] = [tk EXCEPT !.pc = "throw",
                                                   !.wst = "failed", !.delay = 2]]
                    /\ mq' = Append(q, p)
                    /\ UNCHANGED writeQ
       ELSE /\ lastWriteCall' = 0
            /\ task' = [task EXCEPT ![p] = [tk EXCEPT !.pc = "done", !.ret = "ok"]]
            /\ mq' = q \o Token(p)
            /\ UNCHANGED writeQ
    /\ UNCHANGED <<isOpen, updatingPortSettings, lastSignalsValues, internalBuffer,
                   locked, reader, writer, baudRate>>
    /\ UNCHANGED <<portState, gen, liveReader, readReqs, delivered, wOpen,
                   portSignals, sigQ>>
    /\ UNCHANGED <<histVars, lockWaiters, drainWaiters>>

\* write(buffer): this.locked && await this.waitForUnlock(); ...
WriteCall(p) ==
    /\ CanCall(p)
    /\ IF locked # 0
       THEN /\ WaitStart(p, "write", 0)
            /\ UNCHANGED <<sessVars, portVars, histVars, drainWaiters>>
       ELSE WriteIssue(p, mq, Entered(p, "write", 0))
    /\ Called

WriteBody(p) ==
    /\ Runs(p, "body") /\ task[p].op = "write"
    /\ WriteIssue(p, Tail(mq), task[p])
    /\ Stepped

\* the drains suspended on the write of task w, in await order
DrainsOn(w) == SelectSeq(drainWaiters, LAMBDA t : task[t].awaiting = w)

\* the transport settles the oldest queued write
WriteDone(p) ==
    /\ IoDone(p, "write_io") /\ writeQ # <<>> /\ Head(writeQ) = p
    /\ writeQ' = Tail(writeQ)
    /\ \E ok \in BOOLEAN :
         task' = [t \in Tasks |->
                   IF t = p THEN [task[p] EXCEPT !.pc = "done",
                                     !.wst = IF ok THEN "ok" ELSE "failed",
                                     !.ret = IF ok THEN "ok" ELSE "throw"]
                   ELSE IF InSeq(t, DrainsOn(p))
                        THEN [task[t] EXCEPT !.pc = "drain_res"]
                        ELSE task[t]]
    /\ drainWaiters' = SelectSeq(drainWaiters, LAMBDA t : task[t].awaiting # p)
    /\ mq' = DrainsOn(p) \o Token(p)
    /\ Stepped
    /\ UNCHANGED <<sessVars, histVars, lockWaiters>>
    /\ UNCHANGED <<portState, gen, liveReader, readReqs, delivered, wOpen,
                   portSignals, sigQ>>

\* if (this.lastWriteCall) { await this.lastWriteCall; ... }
DrainAwait(p, q, tk) ==
    /\ IF lastWriteCall # 0
       THEN IF task[lastWriteCall].wst = "pending"
            THEN /\ task' = [task EXCEPT ![p] = [tk EXCEPT !.pc = "drain_wait",
                                                    !.awaiting = lastWriteCall]]
                 /\ drainWaiters' = Append(drainWaiters, p)
                 /\ mq' = q
            ELSE /\ task' = [task EXCEPT ![p] = [tk EXCEPT !.pc = "drain_res",
                                                    !.awaiting = lastWriteCall]]
                 /\ mq' = Append(q, p)
                 /\ UNCHANGED drainWaiters
       ELSE /\ task' = [task EXCEPT ![p] = [tk EXCEPT !.pc = "done", !.ret = "ok"]]
            /\ mq' = q \o Token(p)
            /\ UNCHANGED drainWaiters
    /\ UNCHANGED <<sessVars, portVars, histVars, lockWaiters>>

\* drain(): this.locked && await this.waitForUnlock(); ...
DrainCall(p) ==
    /\ CanCall(p)
    /\ IF locked # 0
       THEN /\ WaitStart(p, "drain", 0)
            /\ UNCHANGED <<sessVars, portVars, histVars, drainWaiters>>
       ELSE DrainAwait(p, mq, Entered(p, "drain", 0))
    /\ Called

DrainBody(p) ==
    /\ Runs(p, "body") /\ task[p].op = "drain"
    /\ DrainAwait(p, Tail(mq), task[p])
    /\ Stepped

\* drain() after await this.lastWriteCall: this.lastWriteCall = undefined
\* (a rejected write makes drain() raise)
DrainRes(p) ==
    /\ Runs(p, "drain_res")
    /\ IF task[task[p].awaiting].wst = "ok"
       THEN /\ lastWriteCall' = 0
            /\ task' = [task EXCEPT ![p] = Settled(p, "ok")]
       ELSE /\ task' = [task EXCEPT ![p] = Settled(p, "throw")]
            /\ UNCHANGED lastWriteCall
    /\ mq' = Tail(mq) \o Token(p)
    /\ Stepped
    /\ UNCHANGED <<isOpen, updatingPortSettings, lastSignalsValues, internalBuffer,
                   locked, reader, writer, baudRate>>
    /\ UNCHANGED <<portVars, histVars, lockWaiters, drainWaiters>>

\* this.internalBuffer = new Uint8Array(0)
FlushNow(p, q, tk) ==
    /\ internalBuffer' = <<>>
    /\ task' = [task EXCEPT ![p] = [tk EXCEPT !.pc = "done", !.ret = "ok"]]
    /\ mq' = q \o Token(p)
    /\ UNCHANGED <<isOpen, lastWriteCall, updatingPortSettings, lastSignalsValues,
                   locked, reader, writer, baudRate>>
    /\ UNCHANGED <<portVars, histVars, lockWaiters, drainWaiters>>

\* flush(): this.locked && await this.waitForUnlock(); ...
FlushCall(p) ==
    /\ CanCall(p)
    /\ IF locked # 0
       THEN /\ WaitStart(p, "flush", 0)
            /\ UNCHANGED <<sessVars, portVars, histVars, drainWaiters>>
       ELSE FlushNow(p, mq, Entered(p, "flush", 0))
    /\ Called

FlushBody(p) ==
    /\ Runs(p, "body") /\ task[p].op = "flush"
    /\ FlushNow(p, Tail(mq), task[p])
    /\ Stepped

\* -------------------------------------------------------------- set / get
\* this.lastSignalsValues = {...}; await this.port.setSignals(...)
\* (setSignals of a port that is not open rejects at once)
SetApply(p, q, tk) ==
    /\ lastSignalsValues' = tk.arg
    /\ IF portState = "opened"
       THEN /\ sigQ' = Append(sigQ, p)
            /\ task' = [task EXCEPT ![p] = [tk EXCEPT !.pc = "sig_io", !.sig = tk.arg]]
            /\ mq' = q
       ELSE /\ task' = [task EXCEPT ![p] = [tk EXCEPT !.pc = "throw"]]
            /\ mq' = Append(q, p)
            /\ UNCHANGED sigQ
    /\ UNCHANGED <<isOpen, lastWriteCall, updatingPortSettings, internalBuffer,
                   locked, reader, writer, baudRate>>
    /\ UNCHANGED <<portState, gen, liveReader, readReqs, delivered, wOpen, writeQ,
                   portSignals>>
    /\ UNCHANGED <<histVars, lockWaiters, drainWaiters>>

\* set(options): this.locked && await this.waitForUnlock(); ...
SetCall(p, v) ==
    /\ CanCall(p)
    /\ IF locked # 0
       THEN /\ WaitStart(p, "set", v)
            /\ UNCHANGED <<sessVars, portVars, histVars, drainWaiters>>
       ELSE SetApply(p, mq, Entered(p, "set", v))
    /\ Called

SetBody(p) ==
    /\ Runs(p, "body") /\ task[p].op = "set"
    /\ SetApply(p, Tail(mq), task[p])
    /\ Stepped

\* await this.port.setSignals() of set() settles
SetSignalsDone(p) ==
    /\ IoDone(p, "sig_io") /\ task[p].op = "set" /\ Head(sigQ) = p
    /\ sigQ' = Tail(sigQ)
    /\ \E ok \in BOOLEAN :
         /\ portSignals' = IF ok THEN task[p].sig ELSE portSignals
         /\ task' = [task EXCEPT ![p] = Settled(p, IF ok THEN "ok" ELSE "throw")]
    /\ mq' = Token(p)
    /\ Stepped
    /\ UNCHANGED <<sessVars, histVars, lockWaiters, drainWaiters>>
    /\ UNCHANGED <<portState, gen, liveReader, readReqs, delivered, wOpen, writeQ>>

\* const signals = await this.port.getSignals()
GetAsk(p, q, tk) ==
    /\ IF portState = "opened"
       THEN /\ task' = [task EXCEPT ![p] = [tk EXCEPT !.pc = "get_io"]]
            /\ mq' = q
       ELSE /\ task' = [task EXCEPT ![p] = [tk EXCEPT !.pc = "throw"]]
            /\ mq' = Append(q, p)
    /\ UNCHANGED <<sessVars, portVars, histVars, lockWaiters, drainWaiters>>

\* get(): this.locked && await this.waitForUnlock(); ...
GetCall(p) ==
    /\ CanCall(p)
    /\ IF locked # 0
       THEN /\ WaitStart(p, "get", 0)
            /\ UNCHANGED <<sessVars, portVars, histVars, drainWaiters>>
       ELSE GetAsk(p, mq, Entered(p, "get", 0))
    /\ Called

GetBody(p) ==
    /\ Runs(p, "body") /\ task[p].op = "get"
    /\ GetAsk(p, Tail(mq), task[p])
    /\ Stepped

GetDone(p) ==
    /\ IoDone(p, "get_io")
    /\ \E ok \in BOOLEAN :
         task' = [task EXCEPT ![p] = Settled(p, IF ok THEN "ok" ELSE "throw")]
    /\ mq' = Token(p)
    /\ Stepped
    /\ UNCHANGED <<sessVars, portVars, histVars, lockWaiters, drainWaiters>>

\* ------------------------------------------------------------------ read
MinSecond(a, b) == b
\* Math.min(a, b)
Min(a, b) == IF a < b THEN a ELSE b
TakeShort(s, n) == SubSeq(s, 1, n - 1)
Take(s, n) == SubSeq(s, 1, n)
DropLosing(s, n) == SubSeq(s, n + 2, Len(s))
Drop(s, n) == SubSeq(s, n + 1, Len(s))
\* the transport numbers the bytes it delivers: a chunk of k bytes after d
Bytes(d, k) == [i \in 1..k |-> d + i]

\* const shouldIgnoreError = this.updatingPortSettings || (e instanceof Error
\* && ["BreakError", "FramingError", "ParityError", "BufferOverrunError"].includes(e.name))
ShouldIgnoreError(upd, e) == upd \/ e = "noise"

\* shouldRepeat = !result || (this.updatingPortSettings && result?.done)
ShouldRepeat(res, upd) == res = "none" \/ (upd /\ res = "done")

ReadReturnRaises(p, q, tk, bs, k) ==
    /\ task' = [task EXCEPT ![p] = [tk EXCEPT !.pc = "done", !.ret = "throw"]]
    /\ returned' = returned
    /\ mq' = q \o Token(p)
\* read() returns { buffer, bytesRead: k }: bs are the bytes it set in the
\* buffer, from offset on
ReadReturn(p, q, tk, bs, k) ==
    /\ task' = [task EXCEPT ![p] = [tk EXCEPT !.pc = "done", !.ret = "ok",
                                              !.rbytes = bs, !.bytesRead = k]]
    /\ returned' = returned \o bs
    /\ mq' = q \o Token(p)

\* let reader = this.reader; do { if (!reader) return {bytesRead: 0};
\* result = await reader.read() ...: a read of a closed stream resolves with
\* done at once, a read of a stream that has a chunk queued with that chunk
ReadLoop(p, q, rq, tk) ==
    /\ IF reader = 0
       THEN /\ ReadReturn(p, q, [tk EXCEPT !.rdr = 0], <<>>, 0)
            /\ readReqs' = rq
            /\ UNCHANGED delivered
       ELSE IF liveReader = reader
            THEN \E k \in 0..MaxChunk :
                   IF k = 0
                   THEN /\ readReqs' = Append(rq, p)
                        /\ task' = [task EXCEPT ![p] = [tk EXCEPT !.rdr = reader,
                                                                  !.pc = "read_io"]]
                        /\ mq' = q
                        /\ UNCHANGED <<delivered, returned>>
                   ELSE /\ rq = <<>> /\ delivered + k <= MaxBytes
                        /\ delivered' = delivered + k
                        /\ task' = [task EXCEPT ![p] = [tk EXCEPT !.rdr = reader,
                                        !.pc = "read_res", !.io = "chunk",
                                        !.chunk = Bytes(delivered, k)]]
                        /\ mq' = Append(q, p)
                        /\ readReqs' = rq
                        /\ UNCHANGED returned
            ELSE /\ task' = [task EXCEPT ![p] = [tk EXCEPT !.rdr = reader,
                                                 !.pc = "read_res", !.io = "done"]]
                 /\ mq' = Append(q, p)
                 /\ readReqs' = rq
                 /\ UNCHANGED <<delivered, returned>>
    /\ UNCHANGED <<internalBuffer, lockWaiters>>

\* read() after await reader.read() settled with io (done, chunk, or an
\* error: noise is one of the four line errors, other any other error)
ReadResolve(p, q, rq, dl, tk, io, ch) ==
    LET rejected == io \in {"noise", "other"}
        res == IF rejected THEN tk.result ELSE io
        n == tk.arg
        tk1 == [tk EXCEPT !.result = res, !.io = "none", !.chunk = <<>>,
                          !.err = IF rejected THEN io ELSE "none"]
    IN  IF rejected /\ ~ShouldIgnoreError(updatingPortSettings, io)
        THEN /\ task' = [task EXCEPT ![p] = [tk1 EXCEPT !.pc = "done", !.ret = "throw"]]
             /\ mq' = q \o Token(p)
             /\ readReqs' = rq
             /\ delivered' = dl
             /\ UNCHANGED <<internalBuffer, lockWaiters, returned>>
        ELSE IF ShouldRepeat(res, updatingPortSettings)
             THEN IF locked # 0
                  THEN /\ task' = [task EXCEPT ![p] = [tk1 EXCEPT !.pc = "wfu",
                                                            !.awaiting = locked]]
                       /\ lockWaiters' = Append(lockWaiters, p)
                       /\ mq' = q
                       /\ readReqs' = rq
                       /\ delivered' = dl
                       /\ UNCHANGED <<internalBuffer, returned>>
                  ELSE ReadLoop(p, q, rq, tk1)
             ELSE /\ IF res = "done"
                     THEN /\ ReadReturn(p, q, tk1, <<>>, 0)
                          /\ UNCHANGED internalBuffer
                     ELSE IF Len(ch) > n
                          THEN /\ ReadReturn(p, q, tk1, Take(ch, n), n)
                               /\ internalBuffer' = internalBuffer \o Drop(ch, n)
                          ELSE /\ ReadReturn(p, q, tk1, ch, Len(ch))
                               /\ UNCHANGED internalBuffer
                  /\ readReqs' = rq
                  /\ delivered' = dl
                  /\ UNCHANGED lockWaiters

ReadFrame ==
    /\ UNCHANGED <<isOpen, lastWriteCall, updatingPortSettings, lastSignalsValues,
                   locked, reader, writer, baudRate>>
    /\ UNCHANGED <<portState, gen, liveReader, wOpen, writeQ, portSignals, sigQ>>
    /\ UNCHANGED <<portOpenCalls, drainWaiters>>

\* read(buffer, offset, length): serve from internalBuffer, else wait for the
\* lock to clear and read from the transport
ReadCall(p, n) ==
    /\ CanCall(p)
    /\ IF Len(internalBuffer) > 0
       THEN /\ ReadReturn(p, mq, Entered(p, "read", n),
                          Take(internalBuffer, Min(n, Len(internalBuffer))),
                          Min(n, Len(internalBuffer)))
            /\ internalBuffer' = Drop(internalBuffer, Min(n, Len(internalBuffer)))
            /\ UNCHANGED <<readReqs, delivered, lockWaiters>>
       ELSE IF locked # 0
            THEN /\ WaitStart(p, "read", n)
                 /\ UNCHANGED <<internalBuffer, readReqs, delivered, returned>>
            ELSE ReadLoop(p, mq, readReqs, Entered(p, "read", n))
    /\ Called
    /\ ReadFrame

\* read() after its waitForUnlock() returned (first pass, or a retry)
ReadBody(p) ==
    /\ Runs(p, "body") /\ task[p].op = "read"
    /\ ReadLoop(p, Tail(mq), readReqs, task[p])
    /\ Stepped
    /\ ReadFrame

\* the continuation of a reader.read() that settled without I/O
ReadRes(p) ==
    /\ Runs(p, "read_res")
    /\ ReadResolve(p, Tail(mq), readReqs, delivered, task[p], task[p].io, task[p].chunk)
    /\ Stepped
    /\ ReadFrame

\* the transport delivers a chunk to the oldest pending read
ReadChunk(p) ==
    /\ IoDone(p, "read_io") /\ readReqs # <<>> /\ Head(readReqs) = p
    /\ \E k \in 1..MaxChunk :
         /\ delivered + k <= MaxBytes
         /\ ReadResolve(p, <<>>, Tail(readReqs), delivered + k, task[p], "chunk",
                        Bytes(delivered, k))
    /\ Stepped
    /\ ReadFrame

\* the transport reader raises
ReadError(p) ==
    /\ IoDone(p, "read_io") /\ readReqs # <<>> /\ Head(readReqs) = p
    /\ \E e \in {"noise", "other"} :
         ReadResolve(p, <<>>, Tail(readReqs), delivered, task[p], e, <<>>)
    /\ Stepped
    /\ ReadFrame

\* ---------------------------------------------------- registry: paths
NumDevices == 2        \* devices of the platform
MaxId == 1             \* largest vendor, product and service class id
MaxRegCalls == 2       \* registry calls made in a behaviour

Devices == 1..NumDevices
NoId == -1             \* a member port.getInfo() does not report
Ids == {NoId} \cup (0..MaxId)

\* what port.getInfo() can report: the vendor and the product id of a USB
\* device, the service class id of a Bluetooth device
Descriptors ==
    {d \in [usbVendorId : Ids, usbProductId : {NoId, MaxId},
            bluetoothServiceClassId : {NoId, MaxId}] :
        d.usbProductId = NoId <=> d.usbVendorId = NoId}

\* for (const k in webInfo): the members of the dictionary in the order the
\* platform defines them
InfoKeys == <<"bluetoothServiceClassId", "usbProductId", "usbVendorId">>

\* if (webInfo.usbVendorId): undefined and 0 are falsy
Truthy(v) == v # NoId /\ v # 0

\* the decimal string of a number, as searchParams.set() and toString() give
Digits == <<"0", "1", "2", "3", "4", "5", "6", "7", "8", "9">>
ToStr(v) == IF v < 10 THEN <<Digits[v + 1]>>
            ELSE <<Digits[(v \div 10) + 1], Digits[(v % 10) + 1]>>

\* new URL(`webserial://${host}`)
NewURL(host) == [host |-> host, params |-> <<>>]

\* url.searchParams.set(k, v): the first pair named k gets the value and the
\* other pairs named k go, or the pair is appended
SearchParamsSet(url, k, v) ==
    LET ps == url.params
        at == {i \in 1..Len(ps) : ps[i][1] = k}
    IN  IF at = {}
        THEN [url EXCEPT !.params = Append(ps, <<k, ToStr(v)>>)]
        ELSE LET first == CHOOSE i \in at : \A j \in at : i <= j
                 keep == SelectSeq([i \in 1..Len(ps) |-> <<i, ps[i]>>],
                                   LAMBDA e : e[1] = first \/ e[2][1] # k)
             IN  [url EXCEPT !.params =
                     [i \in 1..Len(keep) |->
                         IF keep[i][1] = first THEN <<k, ToStr(v)>>
                         ELSE keep[i][2]]]

RECURSIVE ParamsString(_, _)
ParamsString(ps, i) ==
    IF i > Len(ps) THEN <<>>
    ELSE <<IF i = 1 THEN "?" ELSE "&", ps[i][1], "=">> \o ps[i][2]
         \o ParamsString(ps, i + 1)

\* url.toString(), token by token
URLString(url) == <<"webserial://", url.host>> \o ParamsString(url.params, 1)

\* url = new URL(`webserial://usb`) | bluetooth | port
Category(webInfo) ==
    IF Truthy(webInfo.usbVendorId) THEN "usb"
    ELSE IF Truthy(webInfo.bluetoothServiceClassId) THEN "bluetooth"
    ELSE "port"

\* for (const k in webInfo) if (webInfo[k] != null) url.searchParams.set(k, webInfo[k])
RECURSIVE SetMembers(_, _, _)
SetMembers(url, webInfo, i) ==
    IF i > Len(InfoKeys) THEN url
    ELSE SetMembers(IF webInfo[InfoKeys[i]] # NoId
                    THEN SearchParamsSet(url, InfoKeys[i], webInfo[InfoKeys[i]])
                    ELSE url,
                    webInfo, i + 1)

\* counters[key] || 0
CounterOf(counters, key) ==
    LET at == {i \in 1..Len(counters) : counters[i][1] = key}
    IN  IF at = {} THEN 0 ELSE counters[CHOOSE i \in at : TRUE][2]

CounterSetLost(counters, key, n) == counters
\* counters[key] = n
CounterSet(counters, key, n) ==
    IF \E i \in 1..Len(counters) : counters[i][1] = key
    THEN [i \in 1..Len(counters) |->
             IF counters[i][1] = key THEN <<key, n>> ELSE counters[i]]
    ELSE Append(counters, <<key, n>>)

GetPortInfoSame(counters, port) ==
    LET url == SetMembers(NewURL(Category(info[port])), info[port], 1)
        key == URLString(url)
    IN  [port |-> [path |-> URLString(SearchParamsSet(url, "n", 0)),
                   nativePort |-> port],
         counters |-> CounterSet(counters, key, CounterOf(counters, key) + 1)]
\* getPortInfo(counters, port): the port info, and counters as it leaves them
GetPortInfo(counters, port) ==
    LET url == SetMembers(NewURL(Category(info[port])), info[port], 1)
        key == URLString(url)
        portId == CounterOf(counters, key)
    IN  [port |-> [path |-> URLString(SearchParamsSet(url, "n", portId)),
                   nativePort |-> port],
         counters |-> CounterSet(counters, key, portId + 1)]

\* for (const port of await navigator.serial.getPorts())
\*     ports.push(getPortInfo(counters, port))
RECURSIVE PushPorts(_, _, _)
PushPorts(acc, ps, i) ==
    IF i > Len(ps) THEN acc
    ELSE LET r == GetPortInfo(acc.counters, ps[i])
         IN  PushPorts([acc EXCEPT !.ports = Append(@, r.port),
                                   !.counters = r.counters], ps, i + 1)

ListPortsKept(ps) == PushPorts([seen |-> ps, ports |-> <<>>,
                                counters |-> lastList.counters], ps, 1)
\* list() on the ports ps: const counters = {}; let ports = []; ...
ListPorts(ps) == PushPorts([seen |-> ps, ports |-> <<>>, counters |-> <<>>], ps, 1)

\* -------------------------------------------------- registry: methods
AnyPath == <<"webserial://", "any">>       \* "webserial://any"
Absent == <<>>                             \* undefined

AllDevices == [i \in Devices |-> i]

\* the paths a caller may hand to open(): the sentinel, and what list()
\* gives or would give with every device paired
PathInputs ==
    {AnyPath} \cup {ListPorts(paired).ports[i].path : i \in 1..Len(paired)}
              \cup {ListPorts(AllDevices).ports[i].path : i \in Devices}

\* calls are made one after the other
RegCanCall == rcall.pc \in {"idle", "done"} /\ rcalls < MaxRegCalls

RegSettled(r, v) == [rcall EXCEPT !.pc = "done", !.ret = r, !.value = v]

\* for (const port of ports) if (...) { ...; break }: the first of the
\* positions at, 0 when there is none
FirstPort(at) == IF at = {} THEN 0 ELSE CHOOSE i \in at : \A j \in at : i <= j

\* binding = new WebSerialPortBinding(port, openOptions); await binding.open()
Construct(port) ==
    /\ bindings' = Append(bindings, port)
    /\ rcall' = [rcall EXCEPT !.pc = "binding_open", !.value = port]

\* list(): if ('serial' in navigator) await navigator.serial.getPorts()
ListCall ==
    /\ RegCanCall
    /\ rcalls' = rcalls + 1
    /\ rcall' = IF serial THEN [NoCall EXCEPT !.op = "list", !.pc = "getPorts"]
                ELSE [NoCall EXCEPT !.op = "list", !.pc = "done", !.ret = "ok"]
    /\ UNCHANGED <<serial, info, paired, requestCalls, bindings, opened, lastList>>
    /\ UNCHANGED <<sessVars, portVars, loopVars, histVars>>

\* list() after getPorts(): every port goes through getPortInfo()
ListDone ==
    /\ rcall.op = "list" /\ rcall.pc = "getPorts"
    /\ lastList' = ListPorts(paired)
    /\ rcall' = [RegSettled("ok", lastList'.ports) EXCEPT !.seen = paired]
    /\ UNCHANGED <<serial, info, paired, rcalls, requestCalls, bindings, opened>>
    /\ UNCHANGED <<sessVars, portVars, loopVars, histVars>>

\* getPortPath(nativePort): const ports = await WebSerialBinding.list()
GetPortPathCall(h) ==
    /\ RegCanCall
    /\ rcalls' = rcalls + 1
    /\ rcall' = IF serial
                THEN [NoCall EXCEPT !.op = "getPortPath", !.pc = "getPorts",
                                    !.port = h]
                ELSE [NoCall EXCEPT !.op = "getPortPath", !.pc = "done",
                                    !.port = h, !.ret = "ok", !.value = Absent]
    /\ UNCHANGED <<serial, info, paired, requestCalls, bindings, opened, lastList>>
    /\ UNCHANGED <<sessVars, portVars, loopVars, histVars>>

\* getPortPath() after list(): the path of the first port info whose
\* nativePort is the handle, or undefined
GetPortPathDone ==
    /\ rcall.op = "getPortPath" /\ rcall.pc = "getPorts"
    /\ lastList' = ListPorts(paired)
    /\ LET ports == lastList'.ports
           i == FirstPort({k \in 1..Len(ports) : ports[k].nativePort = rcall.port})
       IN  rcall' = [RegSettled("ok", IF i = 0 THEN Absent ELSE ports[i].path)
                        EXCEPT !.seen = paired]
    /\ UNCHANGED <<serial, info, paired, rcalls, requestCalls, bindings, opened>>
    /\ UNCHANGED <<sessVars, portVars, loopVars, histVars>>

RegistryOpenAsks(path, port) ==
    /\ RegCanCall
    /\ rcalls' = rcalls + 1
    /\ LET c == [NoCall EXCEPT !.op = "open", !.path = path, !.port = port]
       IN  IF ~serial
           THEN /\ rcall' = [c EXCEPT !.pc = "done", !.ret = "NotSupportedError"]
                /\ UNCHANGED <<requestCalls, bindings>>
           ELSE IF path = AnyPath
           THEN /\ requestCalls' = requestCalls + 1
                /\ rcall' = [c EXCEPT !.pc = "requestPort"]
                /\ UNCHANGED bindings
           ELSE /\ rcall' = [c EXCEPT !.pc = "getPorts"]
                /\ UNCHANGED <<requestCalls, bindings>>
    /\ UNCHANGED <<serial, info, paired, opened, lastList>>
    /\ UNCHANGED <<sessVars, portVars, loopVars, histVars>>
\* open(options): the capability test, then the sentinel path with the handle
\* of the options or with requestPort(), or the lookup through list()
RegistryOpen(path, port) ==
    /\ RegCanCall
    /\ rcalls' = rcalls + 1
    /\ LET c == [NoCall EXCEPT !.op = "open", !.path = path, !.port = port]
       IN  IF ~serial
           THEN /\ rcall' = [c EXCEPT !.pc = "done", !.ret = "NotSupportedError"]
                /\ UNCHANGED <<requestCalls, bindings>>
           ELSE IF path = AnyPath
           THEN IF port # 0
                THEN /\ bindings' = Append(bindings, port)
                     /\ rcall' = [c EXCEPT !.pc = "binding_open", !.value = port]
                     /\ UNCHANGED requestCalls
                ELSE /\ requestCalls' = requestCalls + 1
                     /\ rcall' = [c EXCEPT !.pc = "requestPort"]
                     /\ UNCHANGED bindings
           ELSE /\ rcall' = [c EXCEPT !.pc = "getPorts"]
                /\ UNCHANGED <<requestCalls, bindings>>
    /\ UNCHANGED <<serial, info, paired, opened, lastList>>
    /\ UNCHANGED <<sessVars, portVars, loopVars, histVars>>

\* open() after requestPort(): the user grants a device, which is paired from
\* then on, or dismisses the prompt and requestPort() rejects
RequestPortDone ==
    /\ rcall.op = "open" /\ rcall.pc = "requestPort"
    /\ \E h \in Devices \cup {0} :
         IF h = 0
         THEN /\ rcall' = RegSettled("RequestRejected", 0)
              /\ UNCHANGED <<paired, bindings>>
         ELSE /\ paired' = IF InSeq(h, paired) THEN paired ELSE Append(paired, h)
              /\ Construct(h)
    /\ UNCHANGED <<serial, info, rcalls, requestCalls, opened, lastList>>
    /\ UNCHANGED <<sessVars, portVars, loopVars, histVars>>

OpenLookupAny ==
    /\ rcall.op = "open" /\ rcall.pc = "getPorts"
    /\ lastList' = ListPorts(paired)
    /\ LET ports == lastList'.ports
           m == FirstPort({k \in 1..Len(ports) : ports[k].path = rcall.path})
           i == IF m = 0 /\ ports # <<>> THEN 1 ELSE m
       IN  IF i = 0
           THEN /\ rcall' = [RegSettled("NotFoundError", 0) EXCEPT !.seen = paired]
                /\ UNCHANGED bindings
           ELSE /\ bindings' = Append(bindings, ports[i].nativePort)
                /\ rcall' = [rcall EXCEPT !.pc = "binding_open", !.seen = paired,
                                          !.value = ports[i].nativePort]
    /\ UNCHANGED <<serial, info, paired, rcalls, requestCalls, opened>>
    /\ UNCHANGED <<sessVars, portVars, loopVars, histVars>>
\* open() after list(): the session is constructed on the nativePort of the
\* first port info with the path of the options, or NotFoundError
OpenLookup ==
    /\ rcall.op = "open" /\ rcall.pc = "getPorts"
    /\ lastList' = ListPorts(paired)
    /\ LET ports == lastList'.ports
           i == FirstPort({k \in 1..Len(ports) : ports[k].path = rcall.path})
       IN  IF i = 0
           THEN /\ rcall' = [RegSettled("NotFoundError", 0) EXCEPT !.seen = paired]
                /\ UNCHANGED bindings
           ELSE /\ bindings' = Append(bindings, ports[i].nativePort)
                /\ rcall' = [rcall EXCEPT !.pc = "binding_open", !.seen = paired,
                                          !.value = ports[i].nativePort]
    /\ UNCHANGED <<serial, info, paired, rcalls, requestCalls, opened>>
    /\ UNCHANGED <<sessVars, portVars, loopVars, histVars>>

\* open() after await binding.open(): the session, or the error of the
\* transport
BindingOpenDone ==
    /\ rcall.op = "open" /\ rcall.pc = "binding_open"
    /\ opened' = Append(opened, rcall.value)
    /\ \E ok \in BOOLEAN :
         rcall' = RegSettled(IF ok THEN "ok" ELSE "TransportError", rcall.value)
    /\ UNCHANGED <<serial, info, paired, rcalls, requestCalls, bindings, lastList>>
    /\ UNCHANGED <<sessVars, portVars, loopVars, histVars>>

\* ------------------------------------------------------- specifications
Signals == {1, 2}      \* values of the output signals handed to set()

\* the state a first open() that succeeded leaves behind, with n calls to come
InitOpen(n) ==
    /\ NoRegistry
    /\ isOpen = TRUE
    /\ lastWriteCall = 0
    /\ updatingPortSettings = FALSE
    /\ lastSignalsValues = 0
    /\ internalBuffer = <<>>
    /\ locked = 0
    /\ reader = 1
    /\ writer = 1
    /\ baudRate = InitialBaud
    /\ portState = "opened"
    /\ gen = 1
    /\ liveReader = 1
    /\ readReqs = <<>>
    /\ delivered = 0
    /\ wOpen = TRUE
    /\ writeQ = <<>>
    /\ portSignals = 0
    /\ sigQ = <<>>
    /\ task = [t \in Tasks |-> IdleTask]
    /\ mq = <<>>
    /\ lockWaiters = <<>>
    /\ drainWaiters = <<>>
    /\ userActive = FALSE
    /\ budget = n
    /\ portOpenCalls = 1
    /\ returned = <<>>

\* the steps of open(), close() and update() once called
LockStep(p) ==
    \/ WaitForUnlock(p) \/ LockInstall(p) \/ Tick(p)
    \/ OpenLocked(p) \/ CloseLocked(p) \/ UpdateLocked(p)
    \/ CancelDone(p) \/ WriterCloseDone(p) \/ PortCloseDone(p)
    \/ CloseRet(p) \/ UpdateReopen(p) \/ PortOpenDone(p)
    \/ OpenRet(p) \/ UpdateRestore(p) \/ Catch(p) \/ Throw(p)

LockCall(p) ==
    \/ OpenCall(p) \/ CloseCall(p) \/ (\E b \in BaudRates : UpdateCall(p, b))

IoStep(p) ==
    \/ WriteCall(p) \/ WriteBody(p) \/ WriteDone(p)
    \/ DrainCall(p) \/ DrainBody(p) \/ DrainRes(p)
    \/ FlushCall(p) \/ FlushBody(p)
    \/ (\E v \in Signals : SetCall(p, v)) \/ SetBody(p) \/ SetSignalsDone(p)
    \/ UpdateSignalsDone(p)
    \/ GetCall(p) \/ GetBody(p) \/ GetDone(p)
    \/ (\E n \in 1..MaxLen : ReadCall(p, n)) \/ ReadBody(p) \/ ReadRes(p)
    \/ ReadChunk(p) \/ ReadError(p)

Next == UserResume \/ \E p \in Tasks : LockCall(p) \/ LockStep(p) \/ IoStep(p)

\* every method, MaxCalls calls, from the constructed (closed) session
Spec == Init /\ [][Next]_vars

\* every method, MaxCalls calls, on a session that open() has opened
SpecOpen == InitOpen(MaxCalls) /\ [][Next]_vars

\* the caller issues a read() only after the read() before it has returned
NoReadPending == \A t \in Tasks : task[t].op = "read" => task[t].pc = "done"

ReadCallSeq(p, n) == NoReadPending /\ ReadCall(p, n)

\* the steps of update() once called
UpdateStep(p) ==
    \/ WaitForUnlock(p) \/ LockInstall(p) \/ UpdateLocked(p)
    \/ CancelDone(p) \/ WriterCloseDone(p) \/ PortCloseDone(p)
    \/ UpdateReopen(p) \/ PortOpenDone(p) \/ UpdateRestore(p)
    \/ Catch(p) \/ Tick(p)

NextRead ==
    \/ UserResume
    \/ \E p \in Tasks :
         \/ (\E n \in 1..MaxLen : ReadCallSeq(p, n))
         \/ ReadBody(p) \/ ReadRes(p) \/ ReadChunk(p) \/ ReadError(p)
         \/ (\E b \in BaudRates : UpdateCall(p, b))
         \/ FlushCall(p) \/ FlushBody(p)
         \/ UpdateStep(p)

\* read() one after another, update() and flush(), NumTasks calls, on an
\* opened session
SpecRead == InitOpen(NumTasks) /\ [][NextRead]_vars

\* the same with MaxCalls calls
SpecReadShort == InitOpen(MaxCalls) /\ [][NextRead]_vars

NextSignals ==
    \/ UserResume
    \/ \E p \in Tasks :
         \/ (\E v \in Signals : SetCall(p, v)) \/ SetBody(p) \/ SetSignalsDone(p)
         \/ (\E b \in BaudRates : UpdateCall(p, b))
         \/ UpdateStep(p) \/ UpdateSignalsDone(p)

\* set() and update(), NumTasks calls, on an opened session
SpecSignals == InitOpen(NumTasks) /\ [][NextSignals]_vars

NextWrite ==
    \/ UserResume
    \/ \E p \in Tasks :
         \/ WriteCall(p) \/ WriteDone(p)
         \/ DrainCall(p) \/ DrainRes(p)

\* write() and drain(), NumTasks calls, on an opened session
SpecWrite == InitOpen(NumTasks) /\ [][NextWrite]_vars

\* the steps of close() and update() once called
TeardownStep(p) == UpdateStep(p) \/ CloseLocked(p) \/ CloseRet(p) \/ Throw(p)

NextLock ==
    \/ UserResume
    \/ \E p \in Tasks :
         \/ CloseCall(p) \/ (\E b \in BaudRates : UpdateCall(p, b))
         \/ TeardownStep(p)
         \/ FlushCall(p) \/ FlushBody(p)

\* close(), update() and flush(), NumTasks calls, on an opened session
SpecLock == InitOpen(NumTasks) /\ [][NextLock]_vars

\* the event loop runs every queued microtask and the transport settles
\* every promise it gave out; only the caller is free not to call
LockProgress == UserResume \/ \E p \in Tasks : TeardownStep(p) \/ FlushBody(p)

SpecLockFair == SpecLock /\ WF_vars(LockProgress)

NextReadClose ==
    \/ UserResume
    \/ \E p \in Tasks :
         \/ (\E n \in 1..MaxLen : ReadCallSeq(p, n))
         \/ ReadBody(p) \/ ReadRes(p) \/ ReadChunk(p)
         \/ CloseCall(p) \/ (\E b \in BaudRates : UpdateCall(p, b))
         \/ TeardownStep(p)

\* read() one after another on a device that raises no error, close() and
\* update(), NumTasks calls, on an opened session
SpecReadClose == InitOpen(NumTasks) /\ [][NextReadClose]_vars

\* the event loop runs every queued microtask and the transport settles the
\* promises of cancel(), close() and open(); whether the reader ever delivers
\* a chunk or an error is up to the device
ReadCloseProgress ==
    UserResume \/ \E p \in Tasks : TeardownStep(p) \/ ReadBody(p) \/ ReadRes(p)

SpecReadCloseFair == SpecReadClose /\ WF_vars(ReadCloseProgress)

\* a new session, and a platform with or without the capability, any
\* descriptors and the first devices paired
InitRegistry ==
    /\ isOpen = FALSE
    /\ lastWriteCall = 0
    /\ updatingPortSettings = FALSE
    /\ lastSignalsValues = 0
    /\ internalBuffer = <<>>
    /\ locked = 0
    /\ reader = 0
    /\ writer = 0
    /\ baudRate = InitialBaud
    /\ portState = "closed"
    /\ gen = 0
    /\ liveReader = 0
    /\ readReqs = <<>>
    /\ delivered = 0
    /\ wOpen = FALSE
    /\ writeQ = <<>>
    /\ portSignals = 0
    /\ sigQ = <<>>
    /\ task = [t \in Tasks |-> IdleTask]
    /\ mq = <<>>
    /\ lockWaiters = <<>>
    /\ drainWaiters = <<>>
    /\ userActive = FALSE
    /\ budget = 0
    /\ portOpenCalls = 0
    /\ returned = <<>>
    /\ serial \in BOOLEAN
    /\ info \in [Devices -> Descriptors]
    /\ \E k \in 0..NumDevices : paired = [i \in 1..k |-> i]
    /\ rcall = NoCall
    /\ rcalls = 0
    /\ requestCalls = 0
    /\ bindings = <<>>
    /\ opened = <<>>
    /\ lastList = NoList

NextRegistry ==
    \/ ListCall \/ ListDone
    \/ (\E h \in Devices : GetPortPathCall(h)) \/ GetPortPathDone
    \/ (\E path \in PathInputs, port \in Devices \cup {0} : RegistryOpen(path, port))
    \/ RequestPortDone \/ OpenLookup \/ BindingOpenDone

\* open(), list() and getPortPath() of the registry, MaxRegCalls calls
SpecRegistry == InitRegistry /\ [][NextRegistry]_vars

\* ------------------------------------------------------------- properties
\* the positions of open(), close() and update() between the completion of
\* their lock() and their own unlock()
CSLabels ==
    {"locked", "cancel_io", "cancel_ret", "wclose_io", "wclose_ret",
     "pclose_io", "close_ret", "popen_io", "open_ret", "sig_io"}

InCS(p) == task[p].op \in LockOps /\ task[p].pc \in CSLabels

\* C1: at most one of open(), close() and update() is between the completion
\* of its lock() and its own unlock() at any moment.
C1_MutualExclusion == Cardinality({p \in Tasks : InCS(p)}) <= 1

\* C2: for read() calls issued one after another with no flush() or close()
\* between them, the bytes reported to the callers are, in order, a prefix of
\* the bytes the transport reader delivered (nothing dropped, duplicated or
\* reordered), and once the last read() has returned the bytes not yet
\* reported are exactly the ones kept in internalBuffer.
C2_ReadOrder ==
    (\A t \in Tasks : task[t].op \notin {"flush", "close"}) =>
        /\ Len(returned) <= delivered
        /\ returned = Bytes(0, Len(returned))
        /\ NoReadPending => returned \o internalBuffer = Bytes(0, delivered)

\* two read() calls have returned bytes, the second from the excess of an
\* oversized chunk, and more excess is still kept
C2_Witness ==
    /\ \A t \in Tasks : task[t].op \notin {"flush", "close"}
    /\ NoReadPending
    /\ internalBuffer # <<>>
    /\ \E p, q \in Tasks :
         /\ p < q
         /\ task[p].op = "read" /\ task[p].rbytes # <<>>
         /\ task[q].op = "read" /\ task[q].rbytes # <<>>
         /\ task[q].rdr = 0

\* update() is between the start of its teardown and the end of its setup
Reconfiguring(u) == task[u].op = "update" /\ task[u].pc \in (CSLabels \ {"locked"})

\* the step in which read() of task p returns { bytesRead: 0 }
ZeroBytes(p) ==
    /\ task[p].op = "read" /\ task[p].pc # "done"
    /\ task'[p].pc = "done" /\ task'[p].ret = "ok" /\ task'[p].rbytes = <<>>

\* C3: a read() in flight while update() reconfigures that observes
\* stream-end never returns zero bytes because of that stream-end: neither
\* when it observes it (an update() is reconfiguring), nor later on account of
\* the stream-end result it retried on (its result local still holding it).
C3_ReadAcrossUpdate ==
    [][\A p \in Tasks : ZeroBytes(p) =>
          /\ task[p].result # "done"
          /\ task[p].io = "done" => ~(\E u \in Tasks : Reconfiguring(u))]_vars

\* the signals given to the most recent set() call among the first k calls
\* (0: there was none)
SetBefore(k) ==
    LET S == {s \in 1..k : task[s].op = "set"}
    IN  IF S = {} THEN 0 ELSE task[CHOOSE s \in S : \A t \in S : t <= s].arg

\* the step in which update() of task u, having reopened the port, returns
Restored(u) ==
    /\ task[u].op = "update" /\ task[u].pc \in {"open_ret", "sig_io"}
    /\ task'[u].pc = "done" /\ task'[u].ret = "ok"

\* C4: when update() with a different baud rate completes successfully, the
\* signals it applied to the transport after the reopen are those given to
\* the most recent set() call made before the update began (none if there
\* was no such call) -- whichever moment between the call of update() and the
\* start of its teardown is taken as its beginning.
C4_SignalRestore ==
    [][\A u \in Tasks : Restored(u) =>
          \E k \in (u - 1)..task[u].began : task'[u].sig = SetBefore(k)]_vars

\* C5: once flush() has been called, a read() called afterwards never
\* returns a byte that was in internalBuffer at the moment flush() was called,
\* whether or not open(), close() or update() holds the lock.
C5_FlushThenRead ==
    \A f, r \in Tasks :
        (task[f].op = "flush" /\ task[r].op = "read" /\ f < r) =>
            \A i \in 1..Len(task[r].rbytes) : ~InSeq(task[r].rbytes[i], task[f].stale)

\* the step in which the transport's chunk reaches read() of task p, which
\* returns: the chunk arrives now, or reader.read() had it queued
GotChunk(p) ==
    /\ task[p].op = "read" /\ task'[p].pc = "done"
    /\ \/ task[p].pc = "read_io" /\ delivered' > delivered
       \/ task[p].pc = "read_res" /\ task[p].io = "chunk"

ChunkOf(p) ==
    IF task[p].pc = "read_io" THEN [i \in 1..(delivered' - delivered) |-> delivered + i]
    ELSE task[p].chunk

\* the step in which task p calls read() with bytes in internalBuffer
ReadsStash(p) == task[p].pc = "idle" /\ task'[p].op = "read" /\ internalBuffer # <<>>

\* C6: with internalBuffer empty, read(buffer, offset, length) that receives
\* a chunk of k > length bytes returns its first length bytes and stashes the
\* other k - length; a read(_, _, m) called with bytes stashed returns the
\* first min(m, stashed) of them without calling the transport reader.
C6_OversizedChunk ==
    [][\A p \in Tasks :
         /\ (GotChunk(p) /\ internalBuffer = <<>> /\ Len(ChunkOf(p)) > task[p].arg) =>
               /\ task'[p].ret = "ok"
               /\ task'[p].rbytes = [i \in 1..task[p].arg |-> ChunkOf(p)[i]]
               /\ internalBuffer' = [i \in 1..(Len(ChunkOf(p)) - task[p].arg) |->
                                        ChunkOf(p)[task[p].arg + i]]
         /\ ReadsStash(p) =>
               LET m == task'[p].arg
                   a == IF m < Len(internalBuffer) THEN m ELSE Len(internalBuffer)
               IN  /\ task'[p].pc = "done" /\ task'[p].ret = "ok"
                   /\ task'[p].rbytes = [i \in 1..a |-> internalBuffer[i]]
                   /\ internalBuffer' = [i \in 1..(Len(internalBuffer) - a) |->
                                            internalBuffer[a + i]]
                   /\ task'[p].rdr = 0
                   /\ readReqs' = readReqs /\ delivered' = delivered]_vars

\* a read() was handed an oversized chunk and the read() called next got the
\* byte after the ones it returned, from the stash
C6_Witness ==
    \E p, q \in Tasks :
        /\ q = p + 1
        /\ task[p].op = "read" /\ task[p].pc = "done" /\ task[p].rdr # 0
        /\ Len(task[p].rbytes) = task[p].arg
        /\ task[q].op = "read" /\ task[q].pc = "done" /\ task[q].rdr = 0
        /\ task[q].rbytes # <<>>
        /\ task[q].rbytes[1] = task[p].rbytes[Len(task[p].rbytes)] + 1

\* C7: when a drain() call has resolved, no transport write issued by a
\* write() call made before that drain() call is still pending.
C7_DrainWaits ==
    \A d, w \in Tasks :
        (task[d].op = "drain" /\ task[d].pc = "done" /\ task[d].ret = "ok"
           /\ task[w].op = "write" /\ w < d) => task[w].wst # "pending"

\* C8: as long as only open() has been called (two calls may overlap), the
\* transport open is invoked at most once, so never on a port that is
\* already open.
C8_OpenOnce ==
    (\A t \in Tasks : task[t].op \in {"none", "open"}) => portOpenCalls <= 1

\* the step in which close() of task c, called on an open session, returns
CloseReturns(c) ==
    /\ task[c].op = "close" /\ task[c].pc = "close_ret"
    /\ task'[c].pc = "done" /\ task'[c].ret = "ok"

\* C9: when close() called on an open session returns, isOpen is false, the
\* reader and the writer are absent, the pending-write handle is dropped (a
\* drain() would not wait), internalBuffer is empty and the lock is free;
\* close() called on a closed session returns at once and changes neither
\* the session nor the transport.
C9_ClosePostcondition ==
    [][\A c \in Tasks :
          /\ CloseReturns(c) =>
               /\ isOpen' = FALSE /\ reader' = 0 /\ writer' = 0
               /\ lastWriteCall' = 0 /\ internalBuffer' = <<>> /\ locked' = 0
          /\ (task[c].pc = "idle" /\ task'[c].op = "close" /\ ~isOpen) =>
               /\ task'[c].pc = "done" /\ task'[c].ret = "ok"
               /\ UNCHANGED <<sessVars, portVars>>]_vars

\* close() has returned on a session that had a write issued, and a drain()
\* called after it has returned as well
C9_Witness ==
    \E w, c, d \in Tasks :
        /\ w < c /\ c < d
        /\ task[w].op = "write" /\ task[w].wst # "none"
        /\ task[c].op = "close" /\ task[c].pc = "done" /\ task[c].ret = "ok"
        /\ task[c].began > 0
        /\ task[d].op = "drain" /\ task[d].pc = "done"
        /\ ~isOpen /\ reader = 0 /\ writer = 0 /\ lastWriteCall = 0

\* the step in which reader.read() of task p rejects with error task'[p].err
CatchesError(p) ==
    /\ task[p].op = "read" /\ task[p].pc \in {"read_io", "read_res"}
    /\ task'[p] # task[p] /\ task'[p].err # "none"

\* C10: an error raised by the transport reader is propagated to the caller
\* of read() iff the session is not reconfiguring and the error is no line
\* error (framing, parity, break, overrun); after a line error read() does
\* not raise and goes on reading instead of returning.
C10_ReadErrors ==
    [][\A p \in Tasks : CatchesError(p) =>
          LET raised == task'[p].pc = "done" /\ task'[p].ret = "throw"
          IN  /\ raised <=> (~updatingPortSettings /\ task'[p].err # "noise")
              /\ task'[p].err = "noise" => task'[p].pc # "done"]_vars

\* update() of task u has started its teardown and has neither finished its
\* setup nor left through its catch block
InUpdateWindow(u) ==
    /\ task[u].op = "update"
    /\ task[u].pc \in ((CSLabels \ {"locked"}) \cup {"catch"})

UpdateSettled(u) == task[u].op = "update" /\ task[u].pc = "done"

\* C11: updatingPortSettings is true only while some update() is between
\* the completion of its lock() and its unlock(), from the start of its
\* teardown to the end of its setup; once every update() called has returned
\* or raised the flag is false; and an exception raised by the teardown, the
\* setup or the signal step of update() is the one its caller gets.
C11_ReconfiguringFlag ==
    /\ [](updatingPortSettings => \E u \in Tasks : InUpdateWindow(u))
    /\ []((\A t \in Tasks : task[t].op = "update" => task[t].pc = "done")
            => ~updatingPortSettings)
    /\ [](\A u \in Tasks : UpdateSettled(u) =>
              (task[u].ret = "throw" <=> task[u].err # "none"))
    /\ [][\A u \in Tasks :
            (InUpdateWindow(u) /\ task[u].err # "none" /\ task'[u].pc # task[u].pc) =>
                /\ UpdateSettled(u)'
                /\ task'[u].ret = "throw" /\ task'[u].err = task[u].err
                /\ ~updatingPortSettings']_vars

\* an update() whose transport open was refused has raised to its caller, and
\* another update() has returned
C11_Witness ==
    /\ ~updatingPortSettings
    /\ \E u, v \in Tasks :
         /\ UpdateSettled(u) /\ task[u].ret = "throw" /\ task[u].err = "open"
         /\ UpdateSettled(v) /\ task[v].ret = "ok" /\ task[v].began > 0

\* C12: close() called on an open session does not raise, whichever of
\* reader.cancel(), writer.close() and port.close() rejected: once its
\* teardown has started it goes through every remaining step and returns
\* with isOpen false, no reader, no writer, internalBuffer empty and the
\* lock released.
C12_BestEffortTeardown ==
    /\ [](\A c \in Tasks : task[c].op = "close" => task[c].ret # "throw")
    /\ [][\A c \in Tasks :
            (task[c].op = "close" /\ task[c].began > 0 /\ task[c].pc # "done"
               /\ task'[c].pc = "done") =>
                /\ CloseReturns(c)
                /\ ~isOpen' /\ reader' = 0 /\ writer' = 0
                /\ internalBuffer' = <<>> /\ locked' = 0]_vars

\* no port.close(), port.open() or setSignals() of open(), close() or
\* update() has been rejected so far
NoStepFailed ==
    \A t \in Tasks : task[t].op \in LockOps =>
        task[t].failed = {} /\ task[t].err \notin {"open", "signals"}

\* the step in which update() of task u, called on an open session that was
\* not reconfiguring, returns after a teardown, with no transport step
\* rejected
UpdateReturns(u) ==
    /\ task[u].op = "update" /\ task[u].onOpen /\ task[u].began > 0
    /\ NoStepFailed
    /\ task[u].pc # "done" /\ task'[u].pc = "done" /\ task'[u].ret = "ok"

\* C13: update({baudRate: b}) with b other than the current rate, called on
\* an open session, with no transport step failing: from the start of its
\* teardown the session is reconfiguring; it returns with the transport
\* reopened at rate b, the reader and the writer of the reopened transport
\* installed, isOpen true, updatingPortSettings false, the lock free and
\* getBaudRate() giving b.
C13_SuccessfulUpdate ==
    [][\A u \in Tasks :
          /\ (task[u].op = "update" /\ task[u].pc = "locked"
                 /\ task'[u].pc # "locked") =>
                 updatingPortSettings' /\ baudRate' = task[u].arg
          /\ UpdateReturns(u) =>
               /\ isOpen' /\ ~updatingPortSettings' /\ locked' = 0
               /\ baudRate' = task[u].arg /\ task[u].rate = task[u].arg
               /\ portState' = "opened"
               /\ reader' = gen' /\ writer' = gen' /\ liveReader' = gen'
               /\ wOpen']_vars

\* the step in which update() is called by task p with the rate the session
\* has
UpdateSameRate(p) ==
    /\ task[p].pc = "idle" /\ task'[p].op = "update"
    /\ task'[p].arg = baudRate

\* C14: update({baudRate: b}) with b the current openOptions.baudRate
\* returns without taking the lock and without any transport call: isOpen,
\* reader, writer, internalBuffer, lastWriteCall, lastSignalsValues,
\* updatingPortSettings, the rate and the whole transport are unchanged.
C14_UpdateSameRate ==
    [][\A p \in Tasks : UpdateSameRate(p) =>
          /\ task'[p].pc = "done" /\ task'[p].ret = "ok" /\ task'[p].began = 0
          /\ UNCHANGED <<sessVars, portVars, portOpenCalls, lockWaiters>>]_vars

\* update() with the rate a former update() has set has returned at once, on
\* a session with a reader, a writer and signals set
C14_Witness ==
    \E u, v \in Tasks :
        /\ UpdateSettled(u) /\ task[u].began > 0 /\ task[u].ret = "ok"
        /\ UpdateSettled(v) /\ task[v].began = 0 /\ task[v].ret = "ok"
        /\ task[v].arg = task[u].arg /\ baudRate = task[v].arg
        /\ u < v /\ isOpen /\ reader # 0 /\ writer # 0 /\ lastSignalsValues # 0

\* the step in which the registry method o is called
RegCalled(o) == rcalls' = rcalls + 1 /\ rcall'.op = o

\* C15: on a platform with the capability, open() with the path
\* "webserial://any" and no webSerialPort calls requestPort() exactly once;
\* open() with a webSerialPort or with another path, list() and getPortPath()
\* never call it.
C15_RequestCount ==
    [][IF /\ RegCalled("open") /\ serial
          /\ rcall'.path = AnyPath /\ rcall'.port = 0
       THEN requestCalls' = requestCalls + 1
       ELSE requestCalls' = requestCalls]_vars

\* open("webserial://any") has asked for a device once, and a later open()
\* with a listed path has constructed its session without asking
C15_Witness ==
    /\ rcalls = 2 /\ requestCalls = 1
    /\ rcall.op = "open" /\ rcall.path # AnyPath
    /\ rcall.pc = "done" /\ rcall.ret = "ok"
    /\ Len(bindings) = 2

\* C16: without the capability open() fails with NotSupportedError whatever
\* its options, before it asks for or lists any device, and list() returns
\* the empty list; with the capability, open() with a path that is not the
\* sentinel and is the path of no listed device fails with NotFoundError; a
\* failing open() constructs no session and opens no transport.
C16_RegistryFailures ==
    [][/\ (RegCalled("open") /\ ~serial) =>
            /\ rcall'.pc = "done" /\ rcall'.ret = "NotSupportedError"
            /\ UNCHANGED <<requestCalls, lastList, paired>>
       /\ (RegCalled("list") /\ ~serial) =>
            /\ rcall'.pc = "done" /\ rcall'.ret = "ok" /\ rcall'.value = <<>>
       /\ (rcall.op = "open" /\ rcall.pc = "getPorts" /\ rcall' # rcall
             /\ \A i \in 1..Len(lastList'.ports) :
                   lastList'.ports[i].path # rcall.path) =>
            /\ rcall'.pc = "done" /\ rcall'.ret = "NotFoundError"
       /\ (rcall'.op = "open" /\ rcall' # rcall
             /\ \/ rcall'.pc = "getPorts"
                \/ rcall'.ret \in {"NotSupportedError", "NotFoundError"}) =>
            UNCHANGED <<bindings, opened, portOpenCalls>>]_vars

\* open() with the path of a device that is not paired has failed with
\* NotFoundError while another device is listed
C16_Witness ==
    /\ serial /\ paired # <<>>
    /\ rcall.op = "open" /\ rcall.pc = "done" /\ rcall.ret = "NotFoundError"
    /\ rcall.path # AnyPath /\ rcall.seen = paired
    /\ bindings = <<>> /\ opened = <<>>

PathOrdinal(path) ==
    CHOOSE v \in 0..9 : path[Len(path)] = Digits[v + 1]

\* C18: in the result of one list(), the ordinal n of a device is the number
\* of devices reported before it with the same descriptor (the same category
\* and the same non-null attributes): the m devices of one descriptor key
\* get 0, 1, ..., m-1 in reported order.
C18_DenseOrdinals ==
    \A i \in 1..Len(lastList.ports) :
        LET path == lastList.ports[i].path
        IN  /\ path[Len(path) - 2] = "n" /\ path[Len(path) - 1] = "="
            /\ PathOrdinal(path) =
                 Cardinality({j \in 1..(i - 1) :
                                info[lastList.seen[j]] = info[lastList.seen[i]]})

\* a list() of two devices with the same descriptor: ordinals 0 and 1
C18_Witness ==
    /\ Len(lastList.ports) = 2
    /\ info[lastList.seen[1]] = info[lastList.seen[2]]
    /\ PathOrdinal(lastList.ports[1].path) = 0
    /\ PathOrdinal(lastList.ports[2].path) = 1

\* C19: the paths of one list() are pairwise distinct; getPortPath(h) gives
\* the path list() gives h when h is paired and undefined when it is not;
\* open() with the path list() gives h constructs its session on h.
C19_PathRoundTrip ==
    /\ [](\A i, j \in 1..Len(lastList.ports) :
             lastList.ports[i].path = lastList.ports[j].path => i = j)
    /\ []((serial /\ rcall.op = "getPortPath" /\ rcall.pc = "done") =>
             /\ lastList.seen = rcall.seen
             /\ \A i \in 1..Len(lastList.seen) :
                   lastList.seen[i] = rcall.port =>
                       rcall.value = lastList.ports[i].path
             /\ (\A i \in 1..Len(lastList.seen) : lastList.seen[i] # rcall.port)
                   => rcall.value = Absent)
    /\ [][(rcall.op = "open" /\ rcall.pc = "getPorts" /\ rcall' # rcall) =>
             /\ lastList'.seen = paired
             /\ \A i \in 1..Len(paired) :
                   lastList'.ports[i].path = rcall.path =>
                       /\ lastList'.ports[i].nativePort = paired[i]
                       /\ rcall'.pc = "binding_open" /\ rcall'.value = paired[i]
                       /\ bindings' = Append(bindings, paired[i])]_vars

\* getPortPath(h) for the second of two devices with the same descriptor,
\* then open() with a path other than the sentinel has returned a session on h
C19_Witness ==
    /\ rcalls = 2 /\ requestCalls = 0 /\ Len(paired) = 2
    /\ info[paired[1]] = info[paired[2]]
    /\ rcall.op = "open" /\ rcall.pc = "done" /\ rcall.ret = "ok"
    /\ rcall.path # AnyPath /\ rcall.value = paired[2]
    /\ bindings = <<paired[2]>> /\ opened = <<paired[2]>>

\* C20: the category of the path of a device is usb when its descriptor has
\* a USB vendor id, whatever the id (0 included) and whether or not it has a
\* service class id too, bluetooth when it has no vendor id and has a service
\* class id, and port otherwise.
C20_CategoryPriority ==
    \A i \in 1..Len(lastList.ports) :
        LET d == info[lastList.seen[i]]
        IN  lastList.ports[i].path[2] =
                IF d.usbVendorId # NoId THEN "usb"
                ELSE IF d.bluetoothServiceClassId # NoId THEN "bluetooth"
                ELSE "port"

\* write(), drain(), flush(), set() and get(): the methods that wait for the
\* lock to clear without taking it
WaitOps == {"write", "drain", "flush", "set", "get"}

\* the step in which task p, which had to wait for the lock, goes on after
\* its waitForUnlock(): the transport call, or the change of lastWriteCall,
\* internalBuffer or lastSignalsValues
ActsAfterWait(p) ==
    /\ task[p].op \in WaitOps /\ task[p].pc = "body"
    /\ task'[p].pc # "body"

\* C21: a write(), set(), get(), drain() or flush() called while open(),
\* close() or update() held the lock goes on to its transport call or to its
\* change of the session only in a state in which no open(), close() or
\* update() is between the completion of its lock() and its unlock(): not
\* after a newer one has acquired the lock between the release and the
\* moment the waiter resumes.
C21_WaitersAfterRelease ==
    [][\A p \in Tasks : ActsAfterWait(p) => \A t \in Tasks : ~InCS(t)]_vars

\* open(), close() or update() raised inside its critical section: it left
\* without calling unlock()
LeftLocked(t) ==
    /\ task[t].op \in LockOps
    /\ \/ task[t].pc \in {"throw", "catch"}
       \/ task[t].pc = "done" /\ task[t].ret = "throw"

\* C22: with the event loop and the transport making progress, a call
\* suspended in waitForUnlock() (a lock() of open(), close() or update(), or a
\* waiter such as flush()) eventually leaves it, whichever lock promise it is
\* suspended on, unless some open(), close() or update() left its critical
\* section without calling unlock().
C22_NoLostWakeup ==
    \A p \in Tasks :
        (task[p].pc = "wfu") ~> (task[p].pc # "wfu" \/ \E t \in Tasks : LeftLocked(t))

\* read() of task p has returned { bytesRead: 0 }
ReturnedZero(p) ==
    task[p].op = "read" /\ task[p].pc = "done" /\ task[p].ret = "ok"
        /\ task[p].rbytes = <<>>

\* C23: a read() suspended on the transport reader when close() starts its
\* teardown eventually returns bytesRead = 0 without raising, given that the
\* event loop and the transport make progress: it neither stays pending nor
\* goes on retrying.
C23_CloseEndsRead ==
    <>[](\A p \in Tasks : task[p].atClose => ReturnedZero(p))

\* C24: once open(), close() or update() has finished, by returning or by
\* raising (the transport open, the reopen or the signal step failed), the
\* lock promise it installed is no longer in the slot.
C24_LockReleased ==
    \A t \in Tasks :
        (task[t].op \in LockOps /\ task[t].pc = "done") => locked # t

\* C25: whenever no open(), close() or update() is between the completion
\* of its lock() and its unlock(), the session has a reader, a writer or an
\* open transport only if isOpen is true; update() with another baud rate on
\* a closed session leaves the transport closed and installs no handle.
C25_IsOpenAgrees ==
    (\A t \in Tasks : ~InCS(t)) =>
        ((reader # 0 \/ writer # 0 \/ portState = "opened") => isOpen)

\* a step of update() of task u: its call, or one of its continuations
UpdateActs(u) == task'[u].op = "update" /\ task'[u] # task[u]

\* update() of task u went through its teardown with bytes in internalBuffer
\* at its call
UpdatedWithStash(u) ==
    task[u].op = "update" /\ task[u].began > 0 /\ task[u].stale # <<>>

\* the place of byte b in what the read() calls have returned (0: not yet)
ReturnedAt(b) ==
    IF InSeq(b, returned) THEN CHOOSE i \in 1..Len(returned) : returned[i] = b
    ELSE 0

\* C26: no step of update() changes internalBuffer; and, as long as neither
\* flush() nor close() is called, the bytes that were in internalBuffer when
\* update() was called come back in their order, and a read() called after
\* that update() returns a byte that was not among them only once all of
\* them have been returned.
C26_UpdateKeepsBuffer ==
    /\ [][\A u \in Tasks : UpdateActs(u) => internalBuffer' = internalBuffer]_vars
    /\ []((\A t \in Tasks : task[t].op \notin {"flush", "close"}) =>
            \A u \in Tasks : UpdatedWithStash(u) =>
                LET old == task[u].stale
                IN  /\ \A i, j \in 1..Len(old) :
                          (i < j /\ ReturnedAt(old[j]) # 0) =>
                              (ReturnedAt(old[i]) # 0
                                 /\ ReturnedAt(old[i]) < ReturnedAt(old[j]))
                    /\ \A r \in Tasks :
                          (task[r].op = "read" /\ u < r
                             /\ \E k \in 1..Len(task[r].rbytes) :
                                    ~InSeq(task[r].rbytes[k], old)) =>
                              \A i \in 1..Len(old) : ReturnedAt(old[i]) # 0)

\* update() has reopened the port with two bytes stashed, the read() called
\* next returned the first of them and the read() after it the second
C26_Witness ==
    \E u, r, q \in Tasks :
        /\ u < r /\ r < q
        /\ UpdatedWithStash(u) /\ task[u].pc = "done" /\ task[u].ret = "ok"
        /\ Len(task[u].stale) = 2
        /\ task[r].op = "read" /\ task[r].rbytes = <<task[u].stale[1]>>
        /\ task[q].op = "read" /\ task[q].rbytes = <<task[u].stale[2]>>

\* C27: whatever the chunks, the stash and the retries across update(), a
\* read(buffer, offset, length) that returns reports 0 <= bytesRead <=
\* length and has set exactly bytesRead bytes in the caller's buffer (from
\* offset on); a read() that has not returned, or that raised, has set none.
C27_ReadBound ==
    \A p \in Tasks :
        task[p].op = "read" =>
            IF task[p].pc = "done" /\ task[p].ret = "ok"
            THEN /\ 0 <= task[p].bytesRead /\ task[p].bytesRead <= task[p].arg
                 /\ Len(task[p].rbytes) = task[p].bytesRead
            ELSE task[p].rbytes = <<>> /\ task[p].bytesRead = 0

\* a read() got more than it asked for and filled its length; the read()
\* called next, asking for less than was stashed, filled its length from the
\* stash and bytes are still kept; a read() retried across update() returned
\* a chunk that fitted
C27_Witness ==
    \E p, q, r \in Tasks :
        /\ q = p + 1
        /\ task[p].op = "read" /\ task[p].pc = "done" /\ task[p].rdr # 0
        /\ task[p].bytesRead = task[p].arg
        /\ task[q].op = "read" /\ task[q].pc = "done" /\ task[q].rdr = 0
        /\ task[q].bytesRead = task[q].arg
        /\ internalBuffer # <<>>
        /\ task[r].op = "read" /\ task[r].pc = "done" /\ task[r].rdr > 1
        /\ task[r].bytesRead > 0 /\ task[r].bytesRead < task[r].arg

\* the step in which read() of task p comes to `let reader = this.reader`:
\* at its call, with internalBuffer empty and the lock free, or after its
\* waitForUnlock()
ReachesReader(p) ==
    \/ /\ task[p].pc = "idle" /\ task'[p].op = "read"
       /\ internalBuffer = <<>> /\ locked = 0
    \/ /\ task[p].op = "read" /\ task[p].pc = "body"
       /\ task'[p].pc # "body"

\* C28: a read() that finds no reader handle when it comes to the transport
\* step (the session was never opened, is closed, or was closed while the
\* read() waited for the lock) returns bytesRead = 0 in that step, does not
\* raise, sets no byte and asks nothing of the transport.
C28_ReadWithoutReader ==
    [][\A p \in Tasks : (ReachesReader(p) /\ reader = 0) =>
          /\ task'[p].pc = "done" /\ task'[p].ret = "ok"
          /\ task'[p].bytesRead = 0 /\ task'[p].rbytes = <<>>
          /\ readReqs' = readReqs /\ delivered' = delivered
          /\ internalBuffer' = internalBuffer]_vars

\* open() has opened the session, and a read() called while close() held
\* the lock has returned zero bytes, having found no reader after its wait
C28_Witness ==
    \E o, c, r \in Tasks :
        /\ task[o].op = "open" /\ task[o].pc = "done" /\ task[o].ret = "ok"
        /\ task[c].op = "close" /\ task[c].pc = "done" /\ task[c].began > 0
        /\ o < c /\ c < r /\ r <= task[c].began
        /\ task[r].op = "read" /\ ReturnedZero(r) /\ task[r].rdr = 0
        /\ reader = 0 /\ ~isOpen

====
